---- MODULE Spec2Model ----
(***************************************************************************)
(* Model of claude-slack-approver.py: the command classifier and the       *)
(* PreToolUse approval hook (post, poll reactions and thread replies,      *)
(* time out to the terminal prompt), its PostToolUse resolver and the      *)
(* pending file they share; and of claude-slack-daemon.py: the session     *)
(* table, the per-thread single-flight dispatcher and the poll cycle.      *)
(*                                                                         *)
(* Strings are sequences of one-character strings, so that splitting,      *)
(* stripping, lower-casing and prefix tests are computed, not assumed.     *)
(***************************************************************************)
EXTENDS Integers, Sequences, FiniteSets, TLC

VARIABLES
    pc,             \* position of the hook process in main()
    token,          \* SLACK_BOT_TOKEN and SLACK_CHANNEL_ID both configured
    tool_name,      \* hook_input["tool_name"]
    cmd,            \* hook_input["tool_input"]["command"] (<<>> when absent)
    rulesFile,      \* state of command-rules.json
    classification, \* result of classify_command, "none" before it ran
    msg_ts,         \* ts of the posted approval request, None before
    bot_user_id,    \* result of get_bot_user_id()
    pending,        \* content of PENDING_FILE, None when the file is absent
    elapsed,        \* time.time() - start
    reactions,      \* Slack: reactions on the request message, in list order
    thread,         \* Slack: replies under the request message, in order
    lastFetch,      \* which fetches of the last poll cycle returned ok
    session,        \* ApprovalSession state
    result,         \* hookSpecificOutput printed on stdout, None when nothing
    exitCode,       \* process exit code, None while running
    log,            \* side effects of the hook process, in program order
    hooks,          \* hook processes sharing PENDING_FILE, by process name
    resolved,       \* what each run of the --resolve process did, in order
    sessions,       \* daemon: content of sessions.json, a dict by thread ts
    now,            \* daemon: time.time()
    _active_threads,        \* daemon: threads being handled
    seen_messages,          \* daemon: ts of top-level messages already met
    seen_thread_messages,   \* daemon: ts of thread replies already met
    channel,        \* Slack: messages of the chat channel, a dict by ts
    handlers,       \* daemon: handler threads started, by message ts
    workers,        \* threads inside a session-table operation, by name
    _sessions_lock, \* holder of the session-table lock, None when free
    lastCall        \* the last completed set_session call and the table before it

hookVars == <<pc, token, tool_name, cmd, rulesFile, classification, msg_ts,
              bot_user_id, elapsed, reactions, thread, lastFetch,
              session, result, exitCode, log>>

pendingVars == <<hooks, resolved>>

daemonVars == <<sessions, now, _active_threads, seen_messages,
                seen_thread_messages, channel, handlers>>

tableVars == <<workers, _sessions_lock, lastCall>>

vars == <<hookVars, pending, pendingVars, daemonVars, tableVars>>

None == "None"               \* Python None where the other values are strings
NoneRec == [none |-> TRUE]   \* Python None where the other values are records
EmptyDict == [k \in {} |-> NoneRec]   \* Python {}

\* The parts of the state a specification does not use stay as they start.
PendingIdle == hooks = EmptyDict /\ resolved = <<>>

DaemonIdle ==
    /\ sessions = EmptyDict
    /\ now = 0
    /\ _active_threads = {}
    /\ seen_messages = {}
    /\ seen_thread_messages = {}
    /\ channel = EmptyDict
    /\ handlers = EmptyDict

TableIdle == workers = EmptyDict /\ _sessions_lock = None /\ lastCall = NoneRec

----------------------------------------------------------------------------
(* Bounds of the model *)

MaxCmdLen == 4      \* longest command string drawn for the classifier
MaxReactions == 2   \* most reactions present on the request message
MaxReplies == 2     \* most replies present under the request message

----------------------------------------------------------------------------
(* Program constants *)

POLL_INTERVAL == 2
TIMEOUT == 300

APPROVE_REACTIONS == {"+1", "thumbsup"}
DENY_REACTIONS == {"-1", "thumbsdown"}

APPROVE_KEYWORDS ==
    { <<"o","k">>, <<"o","k","a","y">>,
      <<"a","p","p","r","o","v","e">>, <<"a","p","p","r","o","v","e","d">>,
      <<"l","g","t","m">>, <<"y","e","s">>,
      <<"g","o"," ","a","h","e","a","d">>, <<"g","o">>,
      <<"y","e","p">>, <<"y","u","p">>, <<"s","u","r","e">>,
      <<"d","o"," ","i","t">>, <<"p","r","o","c","e","e","d">>,
      <<"s","h","i","p"," ","i","t">>, <<"y">> }

----------------------------------------------------------------------------
(* String helpers: str.strip, str.startswith, str.lower, re.search *)

Whitespace == {" "}

RECURSIVE LStrip(_)
LStrip(s) ==
    IF s # <<>> /\ Head(s) \in Whitespace THEN LStrip(Tail(s)) ELSE s

RECURSIVE RStrip(_)
RStrip(s) ==
    IF s # <<>> /\ s[Len(s)] \in Whitespace
    THEN RStrip(SubSeq(s, 1, Len(s) - 1))
    ELSE s

Strip(s) == RStrip(LStrip(s))

StartsWith(s, p) ==
    /\ Len(p) <= Len(s)
    /\ SubSeq(s, 1, Len(p)) = p

Contains(s, p) ==
    \E i \in 1..(Len(s) - Len(p) + 1) : SubSeq(s, i, i + Len(p) - 1) = p

UpperCase == <<"A","B","C","D","E","F","G","H","I","J","K","L","M",
               "N","O","P","Q","R","S","T","U","V","W","X","Y","Z">>
LowerCase == <<"a","b","c","d","e","f","g","h","i","j","k","l","m",
               "n","o","p","q","r","s","t","u","v","w","x","y","z">>

LowerChar(c) ==
    IF \E i \in 1..26 : UpperCase[i] = c
    THEN LowerCase[CHOOSE i \in 1..26 : UpperCase[i] = c]
    ELSE c

Lower(s) == [i \in 1..Len(s) |-> LowerChar(s[i])]

\* A regular expression of the rules file is a literal, optionally anchored
\* at the start ("^lit"); re.search finds it anywhere, or at position 0.
Pat(anchored, lit) == [anchored |-> anchored, lit |-> lit]

re_search(pattern, s) ==
    IF pattern.anchored THEN StartsWith(s, pattern.lit)
    ELSE Contains(s, pattern.lit)

----------------------------------------------------------------------------
(* Command classification (Phase 1) *)

\* Length of the shell operator matched at position i of c, 0 when none:
\* the alternation (?:&&|\|\||[;|]) of _split_chained_commands.
OperatorAt(c, i) ==
    IF i + 1 <= Len(c) /\ c[i] = "&" /\ c[i + 1] = "&" THEN 2
    ELSE IF i + 1 <= Len(c) /\ c[i] = "|" /\ c[i + 1] = "|" THEN 2
    ELSE IF c[i] \in {";", "|"} THEN 1
    ELSE 0

\* re.split on the operators, scanning left to right; the \s* around the
\* operator only removes blanks that the strip() below removes as well.
RECURSIVE re_split(_, _, _)
re_split(c, i, cur) ==
    IF i > Len(c) THEN <<cur>>
    ELSE IF OperatorAt(c, i) > 0
         THEN <<cur>> \o re_split(c, i + OperatorAt(c, i), <<>>)
         ELSE re_split(c, i + 1, Append(cur, c[i]))

RECURSIVE StripNonEmpty(_)
StripNonEmpty(segs) ==
    IF segs = <<>> THEN <<>>
    ELSE IF Strip(Head(segs)) # <<>>
         THEN <<Strip(Head(segs))>> \o StripNonEmpty(Tail(segs))
         ELSE StripNonEmpty(Tail(segs))

_split_chained_commands(c) == StripNonEmpty(re_split(c, 1, <<>>))

\* A loader that falls back to an empty rule set when the file is unusable.
load_command_rules_open(file) ==
    IF file.state = "loaded" THEN file.rules
    ELSE [deny |-> {}, riskyPrefixes |-> {}, riskyPatterns |-> {},
          safePrefixes |-> {}]

\* load_command_rules: None when the file is missing or is not JSON.
load_command_rules(file) ==
    IF file.state = "loaded" THEN file.rules ELSE NoneRec

PrefixMatch(s, prefix) == s = prefix \/ StartsWith(s, prefix \o <<" ">>)

_classify_single_exact(c, rules) ==
    LET s == Strip(c) IN
    IF \E p \in rules.deny : re_search(p, s) THEN "deny"
    ELSE IF \E p \in rules.riskyPrefixes : PrefixMatch(s, p) THEN "risky"
    ELSE IF \E p \in rules.riskyPatterns : re_search(p, s) THEN "risky"
    ELSE IF \E p \in rules.safePrefixes : s = p THEN "safe"
    ELSE "risky"

\* A classifier that tries the safe prefixes before the risky rules.
_classify_single_safefirst(c, rules) ==
    LET s == Strip(c) IN
    IF \E p \in rules.deny : re_search(p, s) THEN "deny"
    ELSE IF \E p \in rules.safePrefixes : PrefixMatch(s, p) THEN "safe"
    ELSE IF \E p \in rules.riskyPrefixes : PrefixMatch(s, p) THEN "risky"
    ELSE IF \E p \in rules.riskyPatterns : re_search(p, s) THEN "risky"
    ELSE "risky"

_classify_single(c, rules) ==
    LET s == Strip(c) IN
    IF \E p \in rules.deny : re_search(p, s) THEN "deny"
    ELSE IF \E p \in rules.riskyPrefixes : PrefixMatch(s, p) THEN "risky"
    ELSE IF \E p \in rules.riskyPatterns : re_search(p, s) THEN "risky"
    ELSE IF \E p \in rules.safePrefixes : PrefixMatch(s, p) THEN "safe"
    ELSE "risky"

\* The loop of classify_command over the segments from index i on.
RECURSIVE ClassifyFrom(_, _, _, _)
ClassifyFrom(segs, i, worst, rules) ==
    IF i > Len(segs) THEN worst
    ELSE LET rating == _classify_single(segs[i], rules) IN
         IF rating = "deny" THEN "deny"
         ELSE IF rating = "risky" THEN ClassifyFrom(segs, i + 1, "risky", rules)
         ELSE ClassifyFrom(segs, i + 1, worst, rules)

\* A classifier in which the rating of the last segment replaces the worst.
RECURSIVE ClassifyLastWins(_, _, _, _)
ClassifyLastWins(segs, i, worst, rules) ==
    IF i > Len(segs) THEN worst
    ELSE ClassifyLastWins(segs, i + 1, _classify_single(segs[i], rules), rules)

classify_command_lastwins(c, file) ==
    LET rules == load_command_rules(file) IN
    IF rules = NoneRec THEN "risky"
    ELSE ClassifyLastWins(_split_chained_commands(c), 1, "safe", rules)

classify_command(c, file) ==
    LET rules == load_command_rules(file) IN
    IF rules = NoneRec THEN "risky"
    ELSE ClassifyFrom(_split_chained_commands(c), 1, "safe", rules)

----------------------------------------------------------------------------
(* Inputs of the classifier *)

Alphabet == {"a", "b", " ", ";", "&", "|"}

RECURSIVE StringsUpTo(_)
StringsUpTo(n) ==
    IF n = 0 THEN {<<>>}
    ELSE LET shorter == StringsUpTo(n - 1) IN
         shorter \cup {Append(s, ch) : s \in {t \in shorter : Len(t) = n - 1},
                                       ch \in Alphabet}

Commands == StringsUpTo(MaxCmdLen)

DenyChoices == { {}, {Pat(FALSE, <<"b","b">>)}, {Pat(TRUE, <<"b">>)} }
RiskyPrefixChoices == { {}, {<<"b">>}, {<<"a"," ","b">>} }
RiskyPatternChoices == { {}, {Pat(FALSE, <<"b","a">>)} }
SafePrefixChoices == { {}, {<<"a">>}, {<<"a">>, <<"b">>}, {<<"a"," ","a">>} }

RuleSets ==
    [deny : DenyChoices, riskyPrefixes : RiskyPrefixChoices,
     riskyPatterns : RiskyPatternChoices, safePrefixes : SafePrefixChoices]

Loaded(rules) == [state |-> "loaded", rules |-> rules]
Missing == [state |-> "missing"]
Malformed == [state |-> "malformed"]

RuleFiles == {Missing, Malformed} \cup {Loaded(r) : r \in RuleSets}

----------------------------------------------------------------------------
(* Slack helpers *)

BotUser == "U_BOT"
HumanUser == "U_HUMAN"

\* message_text as built by format_tool_request; it ends with FOOTER_TEXT.
RequestText == <<"r","e","q","u","e","s","t">>
RequestMsg == [user |-> BotUser, subtype |-> None, text |-> RequestText]

\* reaction.get("name", "").split("::")[0]; a name is its "::"-separated parts
BaseName(name) == IF name = <<>> THEN "" ELSE Head(name)

\* The loop of check_reactions over the reactions of the response.
RECURSIVE FirstRecognized(_)
FirstRecognized(rs) ==
    IF rs = <<>> THEN None
    ELSE IF BaseName(Head(rs)) \in APPROVE_REACTIONS THEN "allow"
    ELSE IF BaseName(Head(rs)) \in DENY_REACTIONS THEN "deny"
    ELSE FirstRecognized(Tail(rs))

\* A check_reactions that looks for a thumbs-down anywhere before a thumbs-up.
check_reactions_denyfirst(resp) ==
    IF ~resp.ok THEN None
    ELSE IF \E i \in 1..Len(resp.reactions) :
                BaseName(resp.reactions[i]) \in DENY_REACTIONS THEN "deny"
    ELSE FirstRecognized(resp.reactions)

check_reactions(resp) ==
    IF ~resp.ok THEN None ELSE FirstRecognized(resp.reactions)

IsApproval(text_lower) ==
    \E keyword \in APPROVE_KEYWORDS :
        \/ text_lower = keyword
        \/ StartsWith(text_lower, keyword \o <<" ">>)
        \/ StartsWith(text_lower, keyword \o <<",">>)

NoReply == [decision |-> None, text |-> <<>>]

\* The loop of check_thread_replies over messages[1:].
RECURSIVE ScanReplies(_, _)
ScanReplies(msgs, bot) ==
    IF msgs = <<>> THEN NoReply
    ELSE LET msg == Head(msgs)
             text == Strip(msg.text)
         IN IF bot # None /\ msg.user = bot THEN ScanReplies(Tail(msgs), bot)
            ELSE IF msg.subtype = "bot_message" THEN ScanReplies(Tail(msgs), bot)
            ELSE IF text = <<>> THEN ScanReplies(Tail(msgs), bot)
            ELSE IF IsApproval(Strip(Lower(text)))
                 THEN [decision |-> "allow", text |-> text]
                 ELSE [decision |-> "deny", text |-> text]

check_thread_replies(resp, bot) ==
    IF ~resp.ok THEN NoReply
    ELSE IF resp.messages = <<>> THEN NoReply
    ELSE ScanReplies(Tail(resp.messages), bot)

----------------------------------------------------------------------------
(* Side effects of the hook process *)

NoFetch == [reactions |-> FALSE, replies |-> FALSE]

Effect(op, arg) == [op |-> op, arg |-> arg]

Output(decision, reason, text) ==
    [permissionDecision |-> decision, reason |-> reason, feedback |-> text]

\* A resolution that prints the verdict before it touches Slack and the file.
Resolve_emitfirst(status, decision, reason, text) ==
    /\ log' = log \o << Effect("print", decision),
                        Effect("update_message", status),
                        Effect("clear_pending", "") >>
    /\ pending' = NoneRec
    /\ result' = Output(decision, reason, text)
    /\ exitCode' = 0
    /\ session' = IF decision = "allow" THEN "Allowed" ELSE "Denied"
    /\ pc' = "done"

\* A resolution that rewrites the message a second time after clearing.
Resolve_twice(status, decision, reason, text) ==
    /\ log' = log \o << Effect("update_message", status),
                        Effect("clear_pending", ""),
                        Effect("update_message", status),
                        Effect("print", decision) >>
    /\ pending' = NoneRec
    /\ result' = Output(decision, reason, text)
    /\ exitCode' = 0
    /\ session' = IF decision = "allow" THEN "Allowed" ELSE "Denied"
    /\ pc' = "done"

\* update_message, clear_pending, print(json.dumps(result)), sys.exit(0)
Resolve(status, decision, reason, text) ==
    /\ log' = log \o << Effect("update_message", status),
                        Effect("clear_pending", ""),
                        Effect("print", decision) >>
    /\ pending' = NoneRec
    /\ result' = Output(decision, reason, text)
    /\ exitCode' = 0
    /\ session' = IF decision = "allow" THEN "Allowed" ELSE "Denied"
    /\ pc' = "done"

----------------------------------------------------------------------------
(* Inputs of the hook *)

HookRules ==
    [deny |-> {Pat(FALSE, <<"b","b">>)}, riskyPrefixes |-> {<<"b">>},
     riskyPatterns |-> {}, safePrefixes |-> {<<"a">>}]

\* (tool_name, command, rules file)
HookInputs ==
    { <<"Bash", <<"a">>, Loaded(HookRules)>>,
      <<"Bash", <<"a",";","b","b">>, Loaded(HookRules)>>,
      <<"Bash", <<"b">>, Loaded(HookRules)>>,
      <<"Bash", <<" ">>, Loaded(HookRules)>> }

ReactionNames ==
    { <<"+1", "skin-tone-2">>, <<"thumbsdown">>, <<"eyes">> }

Reply(user, subtype, text) == [user |-> user, subtype |-> subtype, text |-> text]

ReplyPool ==
    { Reply(HumanUser, None, <<" ","O","k",","," ","g","o"," ">>),
      Reply(HumanUser, None, <<"y","e","s","t","e","r","d","a","y">>),
      Reply(HumanUser, None, <<" "," ">>),
      Reply(HumanUser, "bot_message", <<"y","e","s">>),
      Reply(BotUser, None, <<"Y","e","s">>) }

----------------------------------------------------------------------------
(* The hook process: main() *)

Init ==
    /\ pc = "start"
    /\ token \in BOOLEAN
    /\ \E inp \in HookInputs :
          /\ tool_name = inp[1]
          /\ cmd = inp[2]
          /\ rulesFile = inp[3]
    /\ classification = "none"
    /\ msg_ts = None
    /\ bot_user_id = None
    /\ pending = NoneRec
    /\ elapsed = 0
    /\ reactions = <<>>
    /\ thread = <<>>
    /\ lastFetch = NoFetch
    /\ session = "none"
    /\ result = NoneRec
    /\ exitCode = None
    /\ log = <<>>
    /\ PendingIdle /\ DaemonIdle /\ TableIdle

\* main(), lines 416-422: credentials missing, exit before anything else.
MainNoConfig ==
    /\ pc = "start"
    /\ ~token
    /\ pc' = "done"
    /\ exitCode' = 0
    /\ UNCHANGED <<token, tool_name, cmd, rulesFile, classification, msg_ts,
                   bot_user_id, pending, elapsed, reactions, thread,
                   lastFetch, session, result, log>>
    /\ UNCHANGED <<pendingVars, daemonVars, tableVars>>

\* main(), lines 425-446: a Bash command classified safe or deny.
MainDecideLocally ==
    /\ pc = "start"
    /\ token
    /\ tool_name = "Bash" /\ cmd # <<>>
    /\ LET c == classify_command(cmd, rulesFile) IN
          /\ c \in {"safe", "deny"}
          /\ classification' = c
          /\ result' = IF c = "safe"
                       THEN Output("allow", "Auto-approved: safe command", <<>>)
                       ELSE Output("deny", "Blocked: command matches deny rules", <<>>)
          /\ log' = Append(log, Effect("print", IF c = "safe" THEN "allow" ELSE "deny"))
    /\ exitCode' = 0
    /\ pc' = "done"
    /\ UNCHANGED <<token, tool_name, cmd, rulesFile, msg_ts, bot_user_id,
                   pending, elapsed, reactions, thread, lastFetch, session>>
    /\ UNCHANGED <<pendingVars, daemonVars, tableVars>>

\* The command is risky, or the tool is not Bash, or the command is empty.
NeedsApproval ==
    /\ token
    /\ \/ ~(tool_name = "Bash" /\ cmd # <<>>)
       \/ classify_command(cmd, rulesFile) = "risky"

ClassificationAfterGate ==
    IF tool_name = "Bash" /\ cmd # <<>>
    THEN classify_command(cmd, rulesFile) ELSE classification

\* A post failure that writes the pending file before it checks the post.
MainPostFails_saves ==
    /\ pc = "start"
    /\ NeedsApproval
    /\ classification' = ClassificationAfterGate
    /\ session' = "Created"
    /\ pending' = [msg_ts |-> None, original_text |-> RequestText]
    /\ log' = log \o << Effect("post_message", "failed"), Effect("save_pending", None) >>
    /\ exitCode' = 0
    /\ pc' = "done"
    /\ UNCHANGED <<token, tool_name, cmd, rulesFile, msg_ts, bot_user_id,
                   elapsed, reactions, thread, lastFetch, result>>
    /\ UNCHANGED <<pendingVars, daemonVars, tableVars>>

\* main(), lines 450-461: chat.postMessage failed, exit 0 without a decision.
MainPostFails ==
    /\ pc = "start"
    /\ NeedsApproval
    /\ classification' = ClassificationAfterGate
    /\ session' = "Created"
    /\ log' = Append(log, Effect("post_message", "failed"))
    /\ exitCode' = 0
    /\ pc' = "done"
    /\ UNCHANGED <<token, tool_name, cmd, rulesFile, msg_ts, bot_user_id,
                   pending, elapsed, reactions, thread, lastFetch, result>>
    /\ UNCHANGED <<pendingVars, daemonVars, tableVars>>

\* main(), lines 450-470: post the request, save the pending file, look up
\* the bot's user id (auth.test may fail), start the clock.
MainPost ==
    /\ pc = "start"
    /\ NeedsApproval
    /\ classification' = ClassificationAfterGate
    /\ msg_ts' = "ts1"
    /\ pending' = [msg_ts |-> "ts1", original_text |-> RequestText]
    /\ bot_user_id' \in {BotUser, None}
    /\ log' = log \o << Effect("post_message", "ok"), Effect("save_pending", "ts1") >>
    /\ session' = "AwaitingDecision"
    /\ elapsed' = 0
    /\ pc' = "loop"
    /\ UNCHANGED <<token, tool_name, cmd, rulesFile, reactions, thread,
                   lastFetch, result, exitCode>>
    /\ UNCHANGED <<pendingVars, daemonVars, tableVars>>

\* A poll cycle that consults the thread replies before the reactions.
PollCycle_repliesfirst ==
    /\ pc = "loop"
    /\ elapsed < TIMEOUT
    /\ elapsed' = elapsed + POLL_INTERVAL
    /\ \E rok \in BOOLEAN, tok \in BOOLEAN :
        LET rresp == [ok |-> rok, reactions |-> IF rok THEN reactions ELSE <<>>]
            tresp == [ok |-> tok,
                      messages |-> IF tok THEN <<RequestMsg>> \o thread ELSE <<>>]
            decision == check_reactions(rresp)
            reply == check_thread_replies(tresp, bot_user_id)
        IN
        /\ lastFetch' = [reactions |-> rok, replies |-> tok]
        /\ IF reply.decision = "allow"
           THEN Resolve("Approved via thread reply", "allow",
                        "Approved via Slack thread", reply.text)
           ELSE IF reply.decision = "deny"
           THEN Resolve("Denied with feedback", "deny", "User feedback: ", reply.text)
           ELSE IF decision = "allow"
           THEN Resolve("Approved via Slack", "allow", "Approved via Slack", <<>>)
           ELSE IF decision = "deny"
           THEN Resolve("Denied via Slack", "deny", "Denied via Slack", <<>>)
           ELSE UNCHANGED <<pc, pending, result, exitCode, session, log>>
    /\ UNCHANGED <<token, tool_name, cmd, rulesFile, classification, msg_ts,
                   bot_user_id, reactions, thread>>
    /\ UNCHANGED <<pendingVars, daemonVars, tableVars>>

\* One iteration of the polling loop, lines 471-542: sleep, check the
\* reactions, and when they decide nothing check the thread replies.
\* Either fetch may fail (resp.ok false).
PollCycle ==
    /\ pc = "loop"
    /\ elapsed < TIMEOUT
    /\ elapsed' = elapsed + POLL_INTERVAL
    /\ \E rok \in BOOLEAN, tok \in BOOLEAN :
        LET rresp == [ok |-> rok, reactions |-> IF rok THEN reactions ELSE <<>>]
            tresp == [ok |-> tok,
                      messages |-> IF tok THEN <<RequestMsg>> \o thread ELSE <<>>]
            decision == check_reactions(rresp)
            reply == check_thread_replies(tresp, bot_user_id)
        IN
        IF decision = "allow"
        THEN /\ lastFetch' = [reactions |-> rok, replies |-> FALSE]
             /\ Resolve("Approved via Slack", "allow", "Approved via Slack", <<>>)
        ELSE IF decision = "deny"
        THEN /\ lastFetch' = [reactions |-> rok, replies |-> FALSE]
             /\ Resolve("Denied via Slack", "deny", "Denied via Slack", <<>>)
        ELSE /\ lastFetch' = [reactions |-> rok, replies |-> tok]
             /\ IF reply.decision = "allow"
                THEN Resolve("Approved via thread reply", "allow",
                             IF reply.text # <<>>
                             THEN "Approved via Slack thread. User feedback: "
                             ELSE "Approved via Slack thread",
                             reply.text)
                ELSE IF reply.decision = "deny"
                THEN Resolve("Denied with feedback", "deny",
                             "User feedback: ", reply.text)
                ELSE UNCHANGED <<pc, pending, result, exitCode, session, log>>
    /\ UNCHANGED <<token, tool_name, cmd, rulesFile, classification, msg_ts,
                   bot_user_id, reactions, thread>>
    /\ UNCHANGED <<pendingVars, daemonVars, tableVars>>

\* A timeout path that removes the pending file like the other exits do.
Timeout_clears ==
    /\ pc = "loop"
    /\ ~(elapsed < TIMEOUT)
    /\ log' = log \o << Effect("update_message", "Waiting for terminal approval..."),
                        Effect("clear_pending", "") >>
    /\ pending' = NoneRec
    /\ session' = "TimedOut"
    /\ exitCode' = 0
    /\ pc' = "done"
    /\ UNCHANGED <<token, tool_name, cmd, rulesFile, classification, msg_ts,
                   bot_user_id, elapsed, reactions, thread, lastFetch, result>>
    /\ UNCHANGED <<pendingVars, daemonVars, tableVars>>

\* A timeout path whose test the last poll cycle does not satisfy.
Timeout_late ==
    /\ pc = "loop"
    /\ elapsed > TIMEOUT
    /\ log' = Append(log, Effect("update_message", "Waiting for terminal approval..."))
    /\ session' = "TimedOut"
    /\ exitCode' = 0
    /\ pc' = "done"
    /\ UNCHANGED <<token, tool_name, cmd, rulesFile, classification, msg_ts,
                   bot_user_id, pending, elapsed, reactions, thread,
                   lastFetch, result>>
    /\ UNCHANGED <<pendingVars, daemonVars, tableVars>>

\* Lines 544-550: the window elapsed; rewrite the footer and leave the
\* pending file for the PostToolUse resolver.
Timeout ==
    /\ pc = "loop"
    /\ ~(elapsed < TIMEOUT)
    /\ log' = Append(log, Effect("update_message", "Waiting for terminal approval..."))
    /\ session' = "TimedOut"
    /\ exitCode' = 0
    /\ pc' = "done"
    /\ UNCHANGED <<token, tool_name, cmd, rulesFile, classification, msg_ts,
                   bot_user_id, pending, elapsed, reactions, thread,
                   lastFetch, result>>
    /\ UNCHANGED <<pendingVars, daemonVars, tableVars>>

----------------------------------------------------------------------------
(* Slack users acting on the posted request *)

AddReaction ==
    /\ pc = "loop"
    /\ Len(reactions) < MaxReactions
    /\ \E name \in ReactionNames :
          /\ \A i \in 1..Len(reactions) : reactions[i] # name
          /\ reactions' = Append(reactions, name)
    /\ UNCHANGED <<pc, token, tool_name, cmd, rulesFile, classification,
                   msg_ts, bot_user_id, pending, elapsed, thread,
                   lastFetch, session, result, exitCode, log>>
    /\ UNCHANGED <<pendingVars, daemonVars, tableVars>>

RemoveReaction ==
    /\ pc = "loop"
    /\ \E i \in 1..Len(reactions) :
          reactions' = SubSeq(reactions, 1, i - 1) \o
                       SubSeq(reactions, i + 1, Len(reactions))
    /\ UNCHANGED <<pc, token, tool_name, cmd, rulesFile, classification,
                   msg_ts, bot_user_id, pending, elapsed, thread,
                   lastFetch, session, result, exitCode, log>>
    /\ UNCHANGED <<pendingVars, daemonVars, tableVars>>

PostReply ==
    /\ pc = "loop"
    /\ Len(thread) < MaxReplies
    /\ \E m \in ReplyPool : thread' = Append(thread, m)
    /\ UNCHANGED <<pc, token, tool_name, cmd, rulesFile, classification,
                   msg_ts, bot_user_id, pending, elapsed, reactions,
                   lastFetch, session, result, exitCode, log>>
    /\ UNCHANGED <<pendingVars, daemonVars, tableVars>>

Next ==
    \/ MainNoConfig
    \/ MainDecideLocally
    \/ MainPostFails
    \/ MainPost
    \/ PollCycle
    \/ Timeout
    \/ AddReaction
    \/ RemoveReaction
    \/ PostReply

Spec == Init /\ [][Next]_vars

----------------------------------------------------------------------------
(* The classifier alone, over every command and rule file of the bounds *)

InitClassify ==
    /\ pc = "classify"
    /\ token = TRUE
    /\ tool_name = "Bash"
    /\ cmd \in Commands
    /\ rulesFile \in RuleFiles
    /\ classification = "none"
    /\ msg_ts = None
    /\ bot_user_id = None
    /\ pending = NoneRec
    /\ elapsed = 0
    /\ reactions = <<>>
    /\ thread = <<>>
    /\ lastFetch = NoFetch
    /\ session = "none"
    /\ result = NoneRec
    /\ exitCode = None
    /\ log = <<>>
    /\ PendingIdle /\ DaemonIdle /\ TableIdle

Classify ==
    /\ pc = "classify"
    /\ classification' = classify_command(cmd, rulesFile)
    /\ pc' = "classified"
    /\ UNCHANGED <<token, tool_name, cmd, rulesFile, msg_ts, bot_user_id,
                   pending, elapsed, reactions, thread, lastFetch, session, result, exitCode, log>>
    /\ UNCHANGED <<pendingVars, daemonVars, tableVars>>

NextClassify == Classify

SpecClassify == InitClassify /\ [][NextClassify]_vars

----------------------------------------------------------------------------
(* Properties of the classifier, checked under SpecClassify *)

Segments == _split_chained_commands(cmd)

Classified == pc = "classified" /\ rulesFile.state = "loaded"

DenyMatch(seg) == \E p \in rulesFile.rules.deny : re_search(p, seg)
RiskyPrefixMatch(seg) == \E p \in rulesFile.rules.riskyPrefixes : PrefixMatch(seg, p)
RiskyPatternMatch(seg) == \E p \in rulesFile.rules.riskyPatterns : re_search(p, seg)
SafePrefixMatch(seg) == \E p \in rulesFile.rules.safePrefixes : PrefixMatch(seg, p)
BeginsWithSafePrefix(seg) == \E p \in rulesFile.rules.safePrefixes : StartsWith(seg, p)

\* C1: with a loaded rule set, a command one of whose segments matches a deny
\* pattern is classified deny, whatever the other segments are and wherever
\* the deny segment sits in the chain.
C1_DenyAnywhereWins ==
    (Classified /\ \E i \in 1..Len(Segments) : DenyMatch(Segments[i]))
        => classification = "deny"

\* A chain whose first segment alone would be safe and whose last segment
\* matches a deny pattern has been classified.
C1_Witness ==
    /\ Classified
    /\ Len(Segments) >= 2
    /\ ~DenyMatch(Segments[1]) /\ SafePrefixMatch(Segments[1])
    /\ ~RiskyPrefixMatch(Segments[1]) /\ ~RiskyPatternMatch(Segments[1])
    /\ DenyMatch(Segments[Len(Segments)])
    /\ classification = "deny"

\* C3: when the rules file is missing or malformed, every command is
\* classified risky, never safe and never deny.
C3_FailClosed ==
    (pc = "classified" /\ rulesFile.state # "loaded") => classification = "risky"

\* A command that a valid rule set classifies deny, and one that a valid rule
\* set classifies safe, classified without rules.
C3_Witness ==
    /\ pc = "classified"
    /\ rulesFile.state \in {"missing", "malformed"}
    /\ \E r \in RuleSets : classify_command(cmd, Loaded(r)) = "deny"
    /\ \E r \in RuleSets : classify_command(cmd, Loaded(r)) = "safe"
    /\ classification = "risky"

\* C4: a command with no deny-matching segment in which some segment matches
\* no safe prefix, and a command that yields no segments at all, is
\* classified risky.
C4_SafeOnlyRecognised ==
    ( /\ Classified
      /\ \A i \in 1..Len(Segments) : ~DenyMatch(Segments[i])
      /\ \/ Segments = <<>>
         \/ \E i \in 1..Len(Segments) : ~SafePrefixMatch(Segments[i]) )
        => classification = "risky"

\* C5 as stated: at least one segment, no segment matches a deny pattern, a
\* risky prefix or a risky pattern, and every segment equals a safe prefix or
\* begins with one; then the command is classified safe.
C5_BeginsWithSafePrefix ==
    ( /\ Classified
      /\ Len(Segments) >= 1
      /\ \A i \in 1..Len(Segments) :
            /\ ~DenyMatch(Segments[i])
            /\ ~RiskyPrefixMatch(Segments[i])
            /\ ~RiskyPatternMatch(Segments[i])
            /\ BeginsWithSafePrefix(Segments[i]) )
        => classification = "safe"

\* C5 amended: as above, but every segment equals a safe prefix or begins
\* with one followed by a space; then the command is classified safe.
C5_SafePrefixThenSpace ==
    ( /\ Classified
      /\ Len(Segments) >= 1
      /\ \A i \in 1..Len(Segments) :
            /\ ~DenyMatch(Segments[i])
            /\ ~RiskyPrefixMatch(Segments[i])
            /\ ~RiskyPatternMatch(Segments[i])
            /\ SafePrefixMatch(Segments[i]) )
        => classification = "safe"

\* A command with a segment that continues a safe prefix after a space, and
\* that no deny or risky rule matches, has been classified safe.
C5_Witness ==
    /\ Classified
    /\ rulesFile.rules.deny # {} /\ rulesFile.rules.riskyPatterns # {}
    /\ \E i \in 1..Len(Segments) :
          /\ Segments[i] \notin rulesFile.rules.safePrefixes
          /\ SafePrefixMatch(Segments[i])
    /\ classification = "safe"

----------------------------------------------------------------------------
(* Properties of the approval hook, checked under Spec *)

LogOps(op) == {i \in 1..Len(log) : log[i].op = op}

\* A step of the polling loop that ran one cycle.
PollStep == pc = "loop" /\ elapsed' # elapsed

HasReaction(names) ==
    \E i \in 1..Len(reactions) : BaseName(reactions[i]) \in names

\* C2: a Bash command classified deny produces a deny decision and one
\* classified safe an allow decision, nothing is posted and the pending file
\* is not written, in every configuration.
C2_LocalVerdicts ==
    (pc = "done" /\ tool_name = "Bash" /\ cmd # <<>>
        /\ classify_command(cmd, rulesFile) \in {"safe", "deny"})
        => /\ result # NoneRec
           /\ result.permissionDecision =
                 (IF classify_command(cmd, rulesFile) = "deny" THEN "deny" ELSE "allow")
           /\ LogOps("post_message") = {}
           /\ LogOps("save_pending") = {}
           /\ pending = NoneRec

\* C6 as stated: a poll cycle whose reaction fetch shows a recognized positive
\* reaction resolves Allowed; one that shows a recognized negative reaction
\* resolves Denied.
C6_AnyRecognizedReaction ==
    [][ (PollStep /\ lastFetch'.reactions)
          => /\ HasReaction(APPROVE_REACTIONS) => session' = "Allowed"
             /\ HasReaction(DENY_REACTIONS) => session' = "Denied" ]_vars

\* C6 amended: a poll cycle whose reaction fetch succeeds resolves by the
\* first recognized reaction in the order of the message's reaction list:
\* Allowed when it is positive, Denied when it is negative.
C6_FirstRecognizedReaction ==
    [][ (PollStep /\ lastFetch'.reactions)
          => /\ FirstRecognized(reactions) = "allow"
                  => (session' = "Allowed" /\ result'.permissionDecision = "allow")
             /\ FirstRecognized(reactions) = "deny"
                  => (session' = "Denied" /\ result'.permissionDecision = "deny") ]_vars

\* A session resolved Allowed by a thumbs-up (with a skin tone) that is
\* listed before a thumbs-down.
C6_Witness ==
    /\ session = "Allowed"
    /\ lastFetch.reactions
    /\ result.reason = "Approved via Slack"
    /\ FirstRecognized(reactions) = "allow"
    /\ HasReaction(DENY_REACTIONS)

IsHumanReply(m) == m.user # BotUser /\ m.subtype # "bot_message"

HumanReplies ==
    {i \in 1..Len(thread) : IsHumanReply(thread[i]) /\ Strip(thread[i].text) # <<>>}

FirstHumanReply == thread[CHOOSE i \in HumanReplies : \A j \in HumanReplies : i <= j]

\* C7: with no recognized reaction present, a poll cycle that fetches the
\* replies resolves by the first non-empty human reply: Allowed when its text
\* lower-cased equals an affirmative keyword or starts with one followed by a
\* space or comma, Denied otherwise, and the decision carries the reply text
\* (without surrounding blanks).
C7_FirstHumanReplyDecides ==
    [][ ( /\ PollStep
          /\ FirstRecognized(reactions) = None
          /\ lastFetch'.replies
          /\ HumanReplies # {} )
          => LET text == Strip(FirstHumanReply.text) IN
             /\ session' = (IF IsApproval(Lower(text)) THEN "Allowed" ELSE "Denied")
             /\ result'.feedback = text ]_vars

\* C8: a session that posted a request and was resolved by neither channel
\* ends TimedOut, not before the window has elapsed, with no decision printed
\* and with the pending file written at posting still in place.
C8_TimeoutKeepsPending ==
    (pc = "done" /\ msg_ts # None /\ session \notin {"Allowed", "Denied"})
        => /\ session = "TimedOut"
           /\ elapsed >= TIMEOUT
           /\ result = NoneRec
           /\ LogOps("print") = {}
           /\ exitCode = 0
           /\ pending = [msg_ts |-> msg_ts, original_text |-> RequestText]

\* A session has timed out after polling for the whole window.
C8_Witness ==
    /\ session = "TimedOut"
    /\ elapsed = TIMEOUT
    /\ pending # NoneRec

\* C9: a session that posted a request has made no status update while it is
\* AwaitingDecision and exactly one once it is Allowed, Denied or TimedOut.
C9_ExactlyOneUpdate ==
    msg_ts # None
        => /\ session \in {"AwaitingDecision", "Allowed", "Denied", "TimedOut"}
           /\ session = "AwaitingDecision" => LogOps("update_message") = {}
           /\ session # "AwaitingDecision" => Cardinality(LogOps("update_message")) = 1

\* A request resolved by a positive reaction whose message was rewritten once.
C9_Witness ==
    /\ session = "Allowed"
    /\ result.reason = "Approved via Slack"
    /\ \E i \in 1..Len(log) : log[i] = Effect("update_message", "Approved via Slack")
    /\ Cardinality(LogOps("update_message")) = 1

\* C10: in a session resolved Allowed or Denied the status rewrite and the
\* removal of the pending file both precede the printing of the verdict, the
\* pending file is gone, and the timeout rewrite never happened.
C10_ResolveBeforeVerdict ==
    session \in {"Allowed", "Denied"}
        => /\ pending = NoneRec
           /\ LogOps("update_message") # {}
           /\ LogOps("clear_pending") # {}
           /\ LogOps("print") # {}
           /\ \A k \in LogOps("print") :
                 /\ \A i \in LogOps("update_message") : i < k
                 /\ \A j \in LogOps("clear_pending") : j < k
           /\ \A i \in 1..Len(log) :
                 log[i] # Effect("update_message", "Waiting for terminal approval...")

\* A session resolved Denied by a thread reply, its verdict printed last.
C10_Witness ==
    /\ session = "Denied"
    /\ result.reason = "User feedback: "
    /\ log[Len(log)] = Effect("print", "deny")
    /\ pending = NoneRec

PostFailed == \E i \in 1..Len(log) : log[i] = Effect("post_message", "failed")

\* C18: once posting the request has failed the hook process has ended, with
\* exit status 0 and no deny (no decision at all) printed, the failed post is
\* its last effect, it has not polled, not written the pending file and not
\* updated any message.
C18_PostFailureFailsOpen ==
    PostFailed
        => /\ pc = "done"
           /\ exitCode = 0
           /\ result = NoneRec
           /\ session \notin {"Denied", "AwaitingDecision", "TimedOut"}
           /\ LogOps("print") = {}
           /\ log[Len(log)] = Effect("post_message", "failed")
           /\ elapsed = 0
           /\ lastFetch = NoFetch
           /\ msg_ts = None
           /\ pending = NoneRec
           /\ LogOps("save_pending") = {}
           /\ LogOps("update_message") = {}

\* The post of a request for a risky Bash command failed.
C18_Witness ==
    /\ PostFailed
    /\ tool_name = "Bash"
    /\ classification = "risky"
    /\ pc = "done"

-----------------------------------------------------------------------------
(* claude-slack-daemon.py: the session table (sessions.json)               *)

SESSION_MAX_AGE == 86400

MaxTicks == 2     \* the clock advances at most this many half-days

HalfDay == SESSION_MAX_AGE \div 2

ThreadIds == {"T1", "T2"}

\* The (session_id, project_dir) pairs the callers pass to set_session.
SessionArgs == { <<"s1", "/d">>, <<"s2", "/e">> }

\* No hook process runs beside the daemon.
HookIdle ==
    /\ pc = "none"
    /\ token = TRUE
    /\ tool_name = "none"
    /\ cmd = <<>>
    /\ rulesFile = Missing
    /\ classification = "none"
    /\ msg_ts = None
    /\ bot_user_id = None
    /\ elapsed = 0
    /\ reactions = <<>>
    /\ thread = <<>>
    /\ lastFetch = NoFetch
    /\ session = "none"
    /\ result = NoneRec
    /\ exitCode = None
    /\ log = <<>>

\* dict.get(key), None when the key is absent.
dict_get(d, k) == IF k \in DOMAIN d THEN d[k] ELSE NoneRec

Info(session_id, project_dir, t) ==
    [session_id |-> session_id, project_dir |-> project_dir, last_active |-> t]

\* set_session without the clean-up of old entries.
set_session_keepall(table, thread_ts, session_id, project_dir, t) ==
    [k \in DOMAIN table \cup {thread_ts} |->
        IF k = thread_ts THEN Info(session_id, project_dir, t) ELSE table[k]]

\* The table set_session saves: the entry assigned, then every entry whose
\* last_active is not above the cutoff dropped (the new entry's is t).
set_session(table, thread_ts, session_id, project_dir, t) ==
    LET put == [k \in DOMAIN table \cup {thread_ts} |->
                   IF k = thread_ts THEN Info(session_id, project_dir, t)
                   ELSE table[k]]
        cutoff == t - SESSION_MAX_AGE
    IN  [k \in {x \in DOMAIN put : put[x].last_active > cutoff} |-> put[k]]

\* A touch_session that cleans old entries up as set_session does.
touch_session_evicts(table, thread_ts, t) ==
    IF thread_ts \in DOMAIN table
    THEN LET put == [table EXCEPT ![thread_ts].last_active = t]
         IN  [k \in {x \in DOMAIN put : put[x].last_active > t - SESSION_MAX_AGE} |->
                 put[k]]
    ELSE table

\* The table touch_session leaves: last_active of an existing entry renewed,
\* nothing saved (and nothing dropped) otherwise.
touch_session(table, thread_ts, t) ==
    IF thread_ts \in DOMAIN table
    THEN [table EXCEPT ![thread_ts].last_active = t]
    ELSE table

Workers == {"w1", "w2"}

Calls ==
    [op : {"get_session", "touch_session"}, thread_ts : ThreadIds]
    \cup { [op |-> "set_session", thread_ts |-> th,
            session_id |-> a[1], project_dir |-> a[2]] :
              th \in ThreadIds, a \in SessionArgs }

\* What a call saves, given the table it loaded.
Saved(call, table, t) ==
    CASE call.op = "set_session" ->
            set_session(table, call.thread_ts, call.session_id, call.project_dir, t)
      [] call.op = "touch_session" -> touch_session(table, call.thread_ts, t)
      [] OTHER -> table

Returned(call, table) ==
    IF call.op = "get_session" THEN dict_get(table, call.thread_ts) ELSE NoneRec

InitSessions ==
    /\ HookIdle /\ pending = NoneRec /\ PendingIdle /\ DaemonIdle /\ TableIdle

\* A handler thread calls one of the three operations and waits for the lock.
CallSession(w, call) ==
    /\ w \notin DOMAIN workers
    /\ workers' = [k \in DOMAIN workers \cup {w} |->
                      IF k = w THEN [call |-> call, at |-> "with", loaded |-> NoneRec]
                      ELSE workers[k]]
    /\ UNCHANGED <<hookVars, pending, pendingVars, daemonVars, _sessions_lock, lastCall>>

\* An entry of the critical section that does not take the lock.
EnterSession_nolock(w) ==
    /\ w \in DOMAIN workers
    /\ workers[w].at = "with"
    /\ _sessions_lock' = w
    /\ workers' = [workers EXCEPT ![w].at = "loaded", ![w].loaded = sessions]
    /\ UNCHANGED <<hookVars, pending, pendingVars, daemonVars, lastCall>>

\* with _sessions_lock: sessions = load_sessions()
EnterSession(w) ==
    /\ w \in DOMAIN workers
    /\ workers[w].at = "with"
    /\ _sessions_lock = None
    /\ _sessions_lock' = w
    /\ workers' = [workers EXCEPT ![w].at = "loaded", ![w].loaded = sessions]
    /\ UNCHANGED <<hookVars, pending, pendingVars, daemonVars, lastCall>>

\* A critical section whose get_session hides an entry older than
\* SESSION_MAX_AGE from its caller.
LeaveSession_expiring(w) ==
    /\ w \in DOMAIN workers
    /\ workers[w].at = "loaded"
    /\ sessions' = IF workers[w].call.op = "get_session" THEN sessions
                   ELSE Saved(workers[w].call, workers[w].loaded, now)
    /\ lastCall' = [call |-> workers[w].call,
                    before |-> sessions,
                    returned |->
                       IF /\ workers[w].call.op = "get_session"
                          /\ workers[w].call.thread_ts \in DOMAIN workers[w].loaded
                          /\ workers[w].loaded[workers[w].call.thread_ts].last_active
                                 <= now - SESSION_MAX_AGE
                       THEN NoneRec
                       ELSE Returned(workers[w].call, workers[w].loaded)]
    /\ _sessions_lock' = None
    /\ workers' = [k \in DOMAIN workers \ {w} |-> workers[k]]
    /\ UNCHANGED <<hookVars, pending, pendingVars, now, _active_threads,
                   seen_messages, seen_thread_messages, channel, handlers>>

\* The rest of the critical section: modify the loaded table, save it (get
\* saves nothing), release the lock and return.
LeaveSession(w) ==
    /\ w \in DOMAIN workers
    /\ workers[w].at = "loaded"
    /\ sessions' = IF workers[w].call.op = "get_session" THEN sessions
                   ELSE Saved(workers[w].call, workers[w].loaded, now)
    /\ lastCall' = [call |-> workers[w].call,
                    before |-> sessions,
                    returned |-> Returned(workers[w].call, workers[w].loaded)]
    /\ _sessions_lock' = None
    /\ workers' = [k \in DOMAIN workers \ {w} |-> workers[k]]
    /\ UNCHANGED <<hookVars, pending, pendingVars, now, _active_threads,
                   seen_messages, seen_thread_messages, channel, handlers>>

\* Time passes.
Tick ==
    /\ now < MaxTicks * HalfDay
    /\ now' = now + HalfDay
    /\ UNCHANGED <<hookVars, pending, pendingVars, sessions, _active_threads,
                   seen_messages, seen_thread_messages, channel, handlers, tableVars>>

NextSessions ==
    \/ \E w \in Workers, call \in Calls : CallSession(w, call)
    \/ \E w \in Workers : EnterSession(w)
    \/ \E w \in Workers : LeaveSession(w)
    \/ Tick

SpecSessions == InitSessions /\ [][NextSessions]_vars

-----------------------------------------------------------------------------
(* Properties of the session table, checked under SpecSessions *)

\* The step in which worker w leaves its critical section.
SessionLeaves(w) ==
    /\ w \in DOMAIN workers
    /\ workers[w].at = "loaded"
    /\ w \notin DOMAIN workers'

Fresh(table, t) == {k \in DOMAIN table : table[k].last_active > t - SESSION_MAX_AGE}

\* C13: every get_session, set_session and touch_session leaves its critical
\* section holding the lock, with the table it loaded still the one on disk,
\* so what it saves (or returns) is the operation applied to the table as it
\* is at that moment; an upsert keeps every other thread's entry that is not
\* older than SESSION_MAX_AGE, so upserts of two threads leave both entries.
C13_CriticalSection ==
    [][ \A w \in Workers :
          SessionLeaves(w) =>
             LET call == workers[w].call IN
             /\ _sessions_lock = w
             /\ workers[w].loaded = sessions
             /\ sessions' = Saved(call, sessions, now)
             /\ lastCall'.returned = Returned(call, sessions)
             /\ call.op = "set_session" =>
                   /\ call.thread_ts \in DOMAIN sessions'
                   /\ \A k \in Fresh(sessions, now) \ {call.thread_ts} :
                         /\ k \in DOMAIN sessions'
                         /\ sessions'[k] = sessions[k] ]_vars

\* Upserts for T1 and T2 have both completed at the same clock value, the one
\* for T2 last, and the table holds both entries.
C13_Witness ==
    /\ lastCall # NoneRec
    /\ lastCall.call.op = "set_session"
    /\ lastCall.call.thread_ts = "T2"
    /\ "T1" \in DOMAIN lastCall.before
    /\ "T2" \notin DOMAIN lastCall.before
    /\ lastCall.before["T1"].last_active = now
    /\ DOMAIN sessions = {"T1", "T2"}

\* The session_id and project_dir of every thread of a table.
Mapping(table) ==
    [k \in DOMAIN table |-> <<table[k].session_id, table[k].project_dir>>]

\* C14: after every set_session no entry older than SESSION_MAX_AGE is in the
\* table; and a set_session that directly follows a set_session with the same
\* arguments leaves the threads and their session_id and project_dir as one
\* call (made now on the table before the first) leaves them, and leaves the
\* table exactly as it was when no time has passed since the first.
C14_UpsertIdempotent ==
    [][ \A w \in Workers :
          (SessionLeaves(w) /\ workers[w].call.op = "set_session") =>
             LET call == workers[w].call IN
             /\ \A k \in DOMAIN sessions' :
                   sessions'[k].last_active > now - SESSION_MAX_AGE
             /\ (lastCall # NoneRec /\ lastCall.call = call) =>
                   /\ Mapping(sessions') =
                        Mapping(set_session(lastCall.before, call.thread_ts,
                                            call.session_id, call.project_dir, now))
                   /\ sessions[call.thread_ts].last_active = now
                         => sessions' = sessions ]_vars

\* A set_session for T1 has followed one with the same arguments a day after
\* T2 was last active: T1 keeps its session_id and project_dir, T2 is gone.
C14_Witness ==
    /\ lastCall # NoneRec
    /\ lastCall.call = [op |-> "set_session", thread_ts |-> "T1",
                        session_id |-> "s1", project_dir |-> "/d"]
    /\ DOMAIN lastCall.before = {"T1", "T2"}
    /\ lastCall.before["T1"].session_id = "s1"
    /\ lastCall.before["T2"].last_active = now - SESSION_MAX_AGE
    /\ DOMAIN sessions = {"T1"}
    /\ sessions["T1"] = Info("s1", "/d", now)

-----------------------------------------------------------------------------
(* claude-slack-daemon.py: project resolution, agent runs, dispatch         *)

DEFAULT_PROJECT_DIR == <<"/", "m">>

\* PROJECT_MAP, built from the PROJECT_* keys of .env with lower-cased names.
PROJECT_MAP == [k \in { <<"p">> } |-> <<"/", "p">>]

\* os.path.isdir
isdir(path) == path \in { <<"/", "d">>, <<"/", "p">>, <<"/", "m">> }

\* The characters \w matches, of those that occur in the texts below.
WordChars == {"d", "m", "n", "p", "P", "q", "x"}

\* Length of the longest prefix of s made of characters of (outside) a set.
RunIn(s, set) ==
    CHOOSE n \in 0..Len(s) :
        /\ \A i \in 1..n : s[i] \in set
        /\ n = Len(s) \/ s[n + 1] \notin set

RunNotIn(s, set) ==
    CHOOSE n \in 0..Len(s) :
        /\ \A i \in 1..n : s[i] \notin set
        /\ n = Len(s) \/ s[n + 1] \in set

After(s, n) == SubSeq(s, n + 1, Len(s))

\* resolve_project_and_prompt: (project_dir, prompt) of a message text.
\*   ^(/\S+)\s+(.+)   with group 1 an existing directory
\*   ^(\w+):\s*(.+)   with group 1, lower-cased, a key of PROJECT_MAP
\*   ^(\w+)\s+(.+)    likewise
\*   else the default directory and the whole stripped text
resolve_project_and_prompt(raw) ==
    LET text == Strip(raw)
        n == RunNotIn(text, Whitespace)
        pathMatch == /\ text # <<>>
                     /\ text[1] = "/"
                     /\ n >= 2
                     /\ n < Len(text)
        path_candidate == SubSeq(text, 1, n)
        w == RunIn(text, WordChars)
        shorthand == Lower(SubSeq(text, 1, w))
        colonMatch == /\ w >= 1
                      /\ w + 1 < Len(text)
                      /\ text[w + 1] = ":"
        spaceMatch == /\ w >= 1
                      /\ w < Len(text)
                      /\ text[w + 1] \in Whitespace
    IN  IF pathMatch /\ isdir(path_candidate)
        THEN <<path_candidate, Strip(After(text, n))>>
        ELSE IF colonMatch /\ shorthand \in DOMAIN PROJECT_MAP
        THEN <<PROJECT_MAP[shorthand], Strip(After(text, w + 1))>>
        ELSE IF spaceMatch /\ shorthand \in DOMAIN PROJECT_MAP
        THEN <<PROJECT_MAP[shorthand], Strip(After(text, w))>>
        ELSE <<DEFAULT_PROJECT_DIR, text>>

\* How a run of the claude CLI ends: the subprocess times out, the executable
\* is missing, it prints nothing, it prints something that is not JSON, or it
\* prints a JSON object without "session_id", with a null one, or with one.
AgentIds == {"s1", "s2"}

Failures == {"timeout", "not_found", "no_output", "not_json"}

Outcomes ==
    [kind : Failures \cup {"json_no_id", "json_null_id"}]
    \cup [kind : {"json"}, session_id : AgentIds]

\* new_session_id as run_claude returns it (second component of the pair).
run_claude(outcome, session_id) ==
    CASE outcome.kind \in Failures -> session_id
      [] outcome.kind = "json_no_id" -> session_id
      [] outcome.kind = "json_null_id" -> None
      [] OTHER -> outcome.session_id

\* Messages users may post in the channel: two top-level ones and two
\* replies in the thread of the first, with the texts each may carry.
Parent(ts) == IF ts \in {"R1", "R2"} THEN "T1" ELSE None

MessageIds == {"T1", "T2", "R1", "R2"}

TextPath == <<"/", "d", " ", "x">>
TextNoDir == <<"/", "n", " ", "x">>
TextShorthand == <<"P", ":", " ", "x">>
TextShorthandSpace == <<"p", " ", "x">>
TextUnknown == <<"q", ":", " ", "x">>
TextPlain == <<"x">>

Texts(ts) ==
    CASE ts = "T1" -> {TextPath, TextNoDir, TextShorthand, TextShorthandSpace,
                       TextUnknown, TextPlain}
      [] ts = "R1" -> {TextPath, TextShorthand, TextPlain}
      [] OTHER -> {TextPlain}

Message(user, text, thread_ts) ==
    [user |-> user, text |-> text, thread_ts |-> thread_ts, subtype |-> None]

\* The tests of _poll_cycle a message must pass to be handled: not the bot's
\* own, no subtype, text not empty (texts carry no @mention to strip).
Dispatchable(msg) ==
    /\ msg.user # BotUser
    /\ msg.subtype = None
    /\ Strip(msg.text) # <<>>

\* ":lock: *Claude Code", the start of the approval hook's own messages.
HookMarker == <<":", "l", "o", "c", "k", ":">>

\* The handler thread _poll_cycle starts for a message; the locals of
\* _process_message are unset until it runs.
Handler(text, thread_ts, is_thread_reply) ==
    [text |-> text, thread_ts |-> thread_ts, is_thread_reply |-> is_thread_reply,
     at |-> "spawned", continuing |-> FALSE, project_dir |-> <<>>,
     prompt |-> <<>>, session_id |-> None, outcome |-> None]

Ended(h, at) ==
    [h EXCEPT !.at = at, !.continuing = FALSE, !.project_dir = <<>>,
              !.prompt = <<>>, !.session_id = None, !.outcome = None]

InitDaemon ==
    /\ HookIdle /\ pending = NoneRec /\ PendingIdle /\ DaemonIdle /\ TableIdle

\* A user posts a message in the channel, a reply only under its parent.
UserPosts(ts, text) ==
    /\ ts \notin DOMAIN channel
    /\ Parent(ts) # None => Parent(ts) \in DOMAIN channel
    /\ channel' = [k \in DOMAIN channel \cup {ts} |->
                      IF k = ts THEN Message(HumanUser, text, Parent(ts))
                      ELSE channel[k]]
    /\ UNCHANGED <<hookVars, pending, pendingVars, sessions, now, _active_threads,
                   seen_messages, seen_thread_messages, handlers, tableVars>>

\* One cycle of the polling loop. mark = FALSE leaves out the additions to
\* seen_thread_messages.
PollWith(mark) ==
    \E historyOk \in BOOLEAN, repliesOk \in SUBSET ThreadIds :
       IF ~historyOk
       THEN UNCHANGED vars
       ELSE
         LET newTop == {ts \in DOMAIN channel :
                           /\ channel[ts].thread_ts = None
                           /\ ts \notin seen_messages}
             startTop == {ts \in newTop : Dispatchable(channel[ts])}
             active_threads == DOMAIN sessions
             newReplies == {ts \in DOMAIN channel :
                               /\ channel[ts].thread_ts \in active_threads \cap repliesOk
                               /\ ts \notin seen_thread_messages}
             startReplies == {ts \in newReplies :
                                 /\ Dispatchable(channel[ts])
                                 /\ ~Contains(Strip(channel[ts].text), HookMarker)}
         IN  /\ seen_messages' = seen_messages \cup newTop
             /\ seen_thread_messages' =
                   IF mark THEN seen_thread_messages \cup newReplies
                   ELSE seen_thread_messages
             /\ handlers' =
                   [k \in DOMAIN handlers \cup startTop \cup startReplies |->
                       IF k \in startTop
                       THEN Handler(Strip(channel[k].text), k, FALSE)
                       ELSE IF k \in startReplies
                       THEN Handler(Strip(channel[k].text), channel[k].thread_ts, TRUE)
                       ELSE handlers[k]]
             /\ UNCHANGED <<hookVars, pending, pendingVars, sessions, now,
                            _active_threads, channel, tableVars>>

\* A polling loop that would hand a reply to a handler again at every cycle.
_poll_cycle_unmarked == PollWith(FALSE)

\* _poll_cycle, lines 443-562.
_poll_cycle == PollWith(TRUE)

\* A start that lets a path or shorthand at the head of the text override the
\* stored directory of a reply.
Started_textfirst(h) ==
    LET stored == IF h.is_thread_reply THEN dict_get(sessions, h.thread_ts) ELSE NoneRec
        fromText == resolve_project_and_prompt(h.text)
    IN  IF stored # NoneRec /\ fromText[2] = Strip(h.text)
        THEN [h EXCEPT !.at = "running", !.continuing = TRUE,
                       !.project_dir = stored.project_dir, !.prompt = h.text,
                       !.session_id = stored.session_id]
        ELSE [h EXCEPT !.at = "running", !.continuing = stored # NoneRec,
                       !.project_dir = fromText[1], !.prompt = fromText[2],
                       !.session_id = IF stored # NoneRec THEN stored.session_id
                                      ELSE None]

\* _process_message up to the launch of the agent: look the session up for
\* a reply, take its id and directory, or else resolve them from the text.
Started(h) ==
    LET stored == IF h.is_thread_reply THEN dict_get(sessions, h.thread_ts) ELSE NoneRec
        fromText == resolve_project_and_prompt(h.text)
    IN  IF stored # NoneRec
        THEN [h EXCEPT !.at = "running", !.continuing = TRUE,
                       !.project_dir = stored.project_dir, !.prompt = h.text,
                       !.session_id = stored.session_id]
        ELSE [h EXCEPT !.at = "running", !.continuing = FALSE,
                       !.project_dir = fromText[1], !.prompt = fromText[2],
                       !.session_id = None]

\* A handle_message that enters _process_message whatever _active_threads holds.
handle_message_unguarded(m) ==
    /\ m \in DOMAIN handlers
    /\ handlers[m].at = "spawned"
    /\ _active_threads' = _active_threads \cup {handlers[m].thread_ts}
    /\ handlers' = [handlers EXCEPT ![m] = Started(handlers[m])]
    /\ UNCHANGED <<hookVars, pending, pendingVars, sessions, now, seen_messages,
                   seen_thread_messages, channel, tableVars>>

\* handle_message, lines 328-334, and _process_message, lines 343-367: the
\* membership test and the add are one critical section; the thread either
\* returns at once or goes on to launch the agent. (The "thinking" message it
\* posts is the bot's own, which _poll_cycle skips; it is not kept in channel.)
handle_message(m) ==
    /\ m \in DOMAIN handlers
    /\ handlers[m].at = "spawned"
    /\ IF handlers[m].thread_ts \in _active_threads
       THEN /\ handlers' = [handlers EXCEPT ![m] = Ended(handlers[m], "dropped")]
            /\ UNCHANGED _active_threads
       ELSE /\ _active_threads' = _active_threads \cup {handlers[m].thread_ts}
            /\ handlers' = [handlers EXCEPT ![m] = Started(handlers[m])]
    /\ UNCHANGED <<hookVars, pending, pendingVars, sessions, now, seen_messages,
                   seen_thread_messages, channel, tableVars>>

\* run_claude returns and _process_message records the session, lines
\* 352-356, 361-362, 368-369; each table operation is one critical section.
AgentReturns(m, outcome) ==
    /\ m \in DOMAIN handlers
    /\ handlers[m].at = "running"
    /\ LET h == handlers[m]
           new_session_id == run_claude(outcome, h.session_id)
       IN  /\ sessions' =
                 IF new_session_id # None
                 THEN set_session(sessions, h.thread_ts, new_session_id, h.project_dir, now)
                 ELSE IF h.continuing
                 THEN touch_session(sessions, h.thread_ts, now)
                 ELSE sessions
           /\ handlers' = [handlers EXCEPT ![m].at = "responding",
                                           ![m].outcome = outcome.kind]
    /\ UNCHANGED <<hookVars, pending, pendingVars, now, _active_threads,
                   seen_messages, seen_thread_messages, channel, tableVars>>

\* _process_message, lines 371-384, and the finally of handle_message: the
\* "thinking" message is deleted, the response posted, the thread released.
FinishProcess(m) ==
    /\ m \in DOMAIN handlers
    /\ handlers[m].at = "responding"
    /\ _active_threads' = _active_threads \ {handlers[m].thread_ts}
    /\ handlers' = [handlers EXCEPT ![m] = Ended(handlers[m], "done")]
    /\ UNCHANGED <<hookVars, pending, pendingVars, sessions, now, seen_messages,
                   seen_thread_messages, channel, tableVars>>

\* An exception that ends the handler thread without releasing its thread.
ProcessRaises_leaks(m) ==
    /\ m \in DOMAIN handlers
    /\ handlers[m].at = "responding"
    /\ handlers' = [handlers EXCEPT ![m] = Ended(handlers[m], "raised")]
    /\ UNCHANGED <<hookVars, pending, pendingVars, sessions, now, _active_threads,
                   seen_messages, seen_thread_messages, channel, tableVars>>

\* _process_message raises while it answers in Slack (slack_post catches the
\* transport errors only; a response body that is not JSON raises from
\* json.loads): the finally of handle_message, lines 338-340, releases the
\* thread and the handler thread dies.
ProcessRaises(m) ==
    /\ m \in DOMAIN handlers
    /\ handlers[m].at = "responding"
    /\ _active_threads' = _active_threads \ {handlers[m].thread_ts}
    /\ handlers' = [handlers EXCEPT ![m] = Ended(handlers[m], "raised")]
    /\ UNCHANGED <<hookVars, pending, pendingVars, sessions, now, seen_messages,
                   seen_thread_messages, channel, tableVars>>

NextDaemon ==
    \/ \E ts \in MessageIds : \E text \in Texts(ts) : UserPosts(ts, text)
    \/ _poll_cycle
    \/ \E m \in MessageIds : handle_message(m)
    \/ \E m \in MessageIds, outcome \in Outcomes : AgentReturns(m, outcome)
    \/ \E m \in MessageIds : FinishProcess(m)
    \/ Tick

SpecDaemon == InitDaemon /\ [][NextDaemon]_vars

-----------------------------------------------------------------------------
(* Properties of the dispatcher, checked under SpecDaemon *)

\* The handlers inside _process_message for a thread.
Inside(thread_ts) ==
    {m \in DOMAIN handlers :
        /\ handlers[m].thread_ts = thread_ts
        /\ handlers[m].at \in {"running", "responding"}}

\* The handlers whose agent is running.
Invoking(thread_ts) ==
    {m \in DOMAIN handlers :
        /\ handlers[m].thread_ts = thread_ts
        /\ handlers[m].at = "running"}

\* C11: for every thread at most one handler is inside _process_message, so
\* at most one agent runs for it, and _active_threads holds exactly the
\* threads that have one.
C11_SingleFlight ==
    \A t \in MessageIds :
        /\ Cardinality(Inside(t)) <= 1
        /\ Cardinality(Invoking(t)) <= 1
        /\ t \in _active_threads <=> Inside(t) # {}

\* The agent runs for a reply in thread T1 and for T2 at once while a second
\* reply in T1 has been handed to a handler thread.
C11_Witness ==
    /\ DOMAIN handlers = MessageIds
    /\ handlers["R1"].at = "running"
    /\ handlers["R2"].at = "spawned"
    /\ handlers["T2"].at = "running"

\* The step in which the handler of message m runs the membership test.
Dispatched(m) ==
    /\ m \in DOMAIN handlers
    /\ handlers[m].at = "spawned"
    /\ m \in DOMAIN handlers'
    /\ handlers'[m].at # "spawned"

\* C12: a message whose handler runs the membership test while its thread is
\* in _active_threads is dropped: that step starts no agent and changes
\* neither the table nor the set, exactly one handler of the thread is inside
\* _process_message; and a dropped message stays dropped, it is never handed
\* to a handler again and never starts an agent.
C12_DroppedNotQueued ==
    [][ \A m \in MessageIds :
          /\ (Dispatched(m) /\ handlers[m].thread_ts \in _active_threads)
                => /\ handlers'[m].at = "dropped"
                   /\ Cardinality(Inside(handlers[m].thread_ts)) = 1
                   /\ Inside(handlers[m].thread_ts)' = Inside(handlers[m].thread_ts)
                   /\ Invoking(handlers[m].thread_ts)' = Invoking(handlers[m].thread_ts)
                   /\ UNCHANGED <<sessions, _active_threads>>
          /\ (m \in DOMAIN handlers /\ handlers[m].at = "dropped")
                => /\ m \in DOMAIN handlers'
                   /\ handlers'[m].at = "dropped"
                   /\ m \in seen_messages \cup seen_thread_messages ]_vars

\* Two replies in T1 were handed to handlers; the second was dropped, the
\* first has run the agent and finished, and the second is still dropped.
C12_Witness ==
    /\ {"R1", "R2"} \subseteq DOMAIN handlers
    /\ handlers["R1"].at = "done"
    /\ handlers["R2"].at = "dropped"
    /\ "R2" \in seen_thread_messages
    /\ "T1" \notin _active_threads

\* The step in which run_claude returns to the handler of message m.
AgentReturned(m) ==
    /\ m \in DOMAIN handlers
    /\ handlers[m].at = "running"
    /\ handlers'[m].at = "responding"

\* C15: when the agent returns to a handler that continues an existing
\* session, a session id in its output is upserted with the stored directory,
\* and after a timeout, a missing executable, no output or unparseable output
\* the table is what touch_session leaves: session_id and project_dir as
\* stored, last_active renewed, nothing else changed.
C15_FailureTouches ==
    [][ \A m \in MessageIds :
          (AgentReturned(m) /\ handlers[m].continuing) =>
             LET h == handlers[m] IN
             /\ handlers'[m].outcome = "json"
                   => /\ h.thread_ts \in DOMAIN sessions'
                      /\ sessions'[h.thread_ts].project_dir = h.project_dir
                      /\ sessions'[h.thread_ts].last_active = now
             /\ handlers'[m].outcome \in Failures
                   => sessions' = touch_session(sessions, h.thread_ts, now) ]_vars

\* C16: when the agent returns to the handler of a thread's first message,
\* the table holds an entry for the thread, whatever the outcome.
C16_FirstMessageCreatesSession ==
    [][ \A m \in MessageIds :
          (AgentReturned(m) /\ ~handlers[m].is_thread_reply)
             => handlers[m].thread_ts \in DOMAIN sessions' ]_vars

\* The step in which the handler of message m launches the agent.
Launched(m) ==
    /\ m \in DOMAIN handlers
    /\ handlers[m].at = "spawned"
    /\ handlers'[m].at = "running"

\* The first whitespace-delimited word of a text.
FirstWord(text) == SubSeq(text, 1, RunNotIn(text, Whitespace))

\* The text goes on after its first word.
HasMore(text) == Len(FirstWord(text)) < Len(text)

\* The text begins with the absolute path of an existing directory.
PathPrefix(text) ==
    /\ HasMore(text)
    /\ Len(FirstWord(text)) >= 2
    /\ Head(FirstWord(text)) = "/"
    /\ isdir(FirstWord(text))

\* The shorthand a text begins with ("name: ...", "name:..." or "name ..."),
\* lower-cased; the empty sequence when it begins with none.
ShorthandName(text) ==
    LET w == RunIn(text, WordChars)
    IN  IF w >= 1 /\ w < Len(text)
           /\ \/ text[w + 1] = ":" /\ w + 1 < Len(text)
              \/ text[w + 1] \in Whitespace
        THEN Lower(SubSeq(text, 1, w))
        ELSE <<>>

ShorthandPrefix(text) == ShorthandName(text) \in DOMAIN PROJECT_MAP

\* C17 as stated: the agent is launched in the directory of the path at the
\* head of the text, else of the shorthand at its head, else for a reply in
\* the directory stored for the thread, else in the default directory.
C17_TextPrefixFirst ==
    [][ \A m \in MessageIds :
          Launched(m) =>
             LET h == handlers[m]
                 text == Strip(h.text)
             IN  handlers'[m].project_dir =
                    IF PathPrefix(text) THEN FirstWord(text)
                    ELSE IF ShorthandPrefix(text) THEN PROJECT_MAP[ShorthandName(text)]
                    ELSE IF h.is_thread_reply /\ h.thread_ts \in DOMAIN sessions
                    THEN sessions[h.thread_ts].project_dir
                    ELSE DEFAULT_PROJECT_DIR ]_vars

\* C17 amended: a reply in a thread that has a stored session is launched in
\* the stored directory, resuming the stored session id with its whole text
\* as the prompt, whatever the text begins with; every other message is
\* launched without a session id in the directory of the existing path at the
\* head of its text, else of the shorthand at its head, else in the default.
C17_StoredDirFirst ==
    [][ \A m \in MessageIds :
          Launched(m) =>
             LET h == handlers[m]
                 text == Strip(h.text)
             IN  IF h.is_thread_reply /\ h.thread_ts \in DOMAIN sessions
                 THEN /\ handlers'[m].project_dir = sessions[h.thread_ts].project_dir
                      /\ handlers'[m].session_id = sessions[h.thread_ts].session_id
                      /\ handlers'[m].prompt = h.text
                 ELSE /\ handlers'[m].session_id = None
                      /\ handlers'[m].project_dir =
                            IF PathPrefix(text) THEN FirstWord(text)
                            ELSE IF ShorthandPrefix(text)
                            THEN PROJECT_MAP[ShorthandName(text)]
                            ELSE DEFAULT_PROJECT_DIR ]_vars

\* A reply whose text begins with the path of an existing directory runs in
\* the directory stored for its thread, which a shorthand had selected.
C17_Witness ==
    /\ "R1" \in DOMAIN handlers
    /\ handlers["R1"].at = "running"
    /\ handlers["R1"].text = TextPath
    /\ handlers["R1"].continuing
    /\ handlers["R1"].project_dir = PROJECT_MAP[<<"p">>]
    /\ handlers["R1"].prompt = TextPath
    /\ "T1" \in DOMAIN channel
    /\ channel["T1"].text = TextShorthand

-----------------------------------------------------------------------------
(* claude-slack-approver.py --resolve: the PostToolUse resolver             *)

MaxResolves == 2     \* runs of the resolver

\* What one run of resolve_pending did.
NothingPending == [msg_ts |-> None, update |-> None, cleared |-> FALSE]

Resolved(ts, update) == [msg_ts |-> ts, update |-> update, cleared |-> TRUE]

\* A resolver that rewrites the message and leaves the pending file.
resolve_pending_keeps ==
    /\ pc # "loop"
    /\ Len(resolved) < MaxResolves
    /\ IF pending = NoneRec
       THEN resolved' = Append(resolved, NothingPending)
       ELSE resolved' = Append(resolved, Resolved(pending.msg_ts, "Approved via terminal"))
    /\ UNCHANGED <<hookVars, pending, hooks, daemonVars, tableVars>>

\* resolve_pending, lines 374-396, run as its own process once a tool has
\* completed: no pending file, return; else rewrite the message the file
\* names (it always names one, and the token that posted it is configured)
\* and remove the file.
resolve_pending ==
    /\ pc # "loop"
    /\ Len(resolved) < MaxResolves
    /\ IF pending = NoneRec
       THEN /\ resolved' = Append(resolved, NothingPending)
            /\ UNCHANGED pending
       ELSE /\ resolved' = Append(resolved,
                              IF pending.msg_ts # None /\ token
                              THEN Resolved(pending.msg_ts, "Approved via terminal")
                              ELSE Resolved(pending.msg_ts, None))
            /\ pending' = NoneRec
    /\ UNCHANGED <<hookVars, hooks, daemonVars, tableVars>>

\* One approval request from start to exit, without thread replies, and the
\* resolver runs before and after it.
NextResolve ==
    \/ MainNoConfig
    \/ MainDecideLocally
    \/ MainPostFails
    \/ MainPost
    \/ PollCycle
    \/ Timeout
    \/ AddReaction
    \/ resolve_pending

SpecResolve == Init /\ [][NextResolve]_vars

-----------------------------------------------------------------------------
(* Properties of the resolver, checked under SpecResolve *)

\* The runs of the resolver that rewrote a message.
Rewrites == {i \in 1..Len(resolved) : resolved[i].update # None}

\* The step is a run of the resolver.
ResolverRan == Len(resolved') = Len(resolved) + 1

\* C20: a run of the resolver that finds the pending file rewrites the
\* message it names once and removes the file, a run that finds none changes
\* nothing; so, for a request that timed out, as long as the file is there no
\* run has rewritten anything, and once it is gone exactly one run has
\* rewritten the request's message and every run after that one did nothing.
C20_ResolveIdempotent ==
    /\ [][ ResolverRan =>
             /\ pending' = NoneRec
             /\ resolved' = Append(resolved,
                               IF pending = NoneRec THEN NothingPending
                               ELSE Resolved(pending.msg_ts, "Approved via terminal"))
             /\ UNCHANGED <<hookVars, hooks, daemonVars, tableVars>> ]_vars
    /\ [](session = "TimedOut" =>
             IF pending # NoneRec
             THEN Rewrites = {}
             ELSE /\ Cardinality(Rewrites) = 1
                  /\ \A i \in Rewrites :
                        /\ resolved[i] = Resolved(msg_ts, "Approved via terminal")
                        /\ \A j \in (i + 1)..Len(resolved) :
                              resolved[j] = NothingPending)

\* After a request timed out the resolver ran twice: the first run rewrote
\* the request's message and removed the file, the second found nothing.
C20_Witness ==
    /\ session = "TimedOut"
    /\ pending = NoneRec
    /\ resolved = << Resolved(msg_ts, "Approved via terminal"), NothingPending >>

-----------------------------------------------------------------------------
(* Two hook processes and the resolver over the one PENDING_FILE            *)

HookProcs == {"h1", "h2"}

\* The ts Slack gives the request each process posts.
PostedTs(h) == IF h = "h1" THEN "ts1" ELSE "ts2"

InitPending ==
    /\ HookIdle /\ pending = NoneRec /\ PendingIdle /\ DaemonIdle /\ TableIdle

\* main(), lines 455-467: the process posts its request and writes the file.
HookPosts(h) ==
    /\ h \notin DOMAIN hooks
    /\ hooks' = [k \in DOMAIN hooks \cup {h} |->
                    IF k = h
                    THEN [at |-> "loop", msg_ts |-> PostedTs(h),
                          session |-> "AwaitingDecision", update |-> None]
                    ELSE hooks[k]]
    /\ pending' = [msg_ts |-> PostedTs(h), original_text |-> RequestText]
    /\ UNCHANGED <<hookVars, resolved, daemonVars, tableVars>>

\* main(), lines 476-542: a reaction or a reply decides; the process rewrites
\* its own message, removes the file and prints the verdict.
HookDecides(h, decision) ==
    /\ h \in DOMAIN hooks
    /\ hooks[h].at = "loop"
    /\ hooks' = [hooks EXCEPT ![h].at = "done",
                              ![h].session = IF decision = "allow" THEN "Allowed"
                                             ELSE "Denied",
                              ![h].update = decision]
    /\ pending' = NoneRec
    /\ UNCHANGED <<hookVars, resolved, daemonVars, tableVars>>

\* main(), lines 544-550: the window elapsed; the file is left as it is.
HookTimesOut(h) ==
    /\ h \in DOMAIN hooks
    /\ hooks[h].at = "loop"
    /\ hooks' = [hooks EXCEPT ![h].at = "done", ![h].session = "TimedOut",
                              ![h].update = "Waiting for terminal approval..."]
    /\ UNCHANGED <<hookVars, pending, resolved, daemonVars, tableVars>>

NextPending ==
    \/ \E h \in HookProcs : HookPosts(h)
    \/ \E h \in HookProcs, decision \in {"allow", "deny"} : HookDecides(h, decision)
    \/ \E h \in HookProcs : HookTimesOut(h)
    \/ resolve_pending

SpecPending == InitPending /\ [][NextPending]_vars

-----------------------------------------------------------------------------
(* Properties of the pending file, checked under SpecPending *)

\* The pending file holds the marker of the request of process h.
MarkerOf(h) == pending # NoneRec /\ pending.msg_ts = hooks[h].msg_ts

\* C19: while the request of a hook process is unresolved and its marker is
\* in the pending file, no step of another hook process (its post, its
\* resolution, its timeout) overwrites or removes that marker.
C19_MarkersIndependent ==
    [][ \A h \in HookProcs :
          ( /\ h \in DOMAIN hooks
            /\ hooks[h].at = "loop"
            /\ MarkerOf(h)
            /\ hooks'[h] = hooks[h]
            /\ resolved' = resolved )
          => MarkerOf(h)' ]_vars

-----------------------------------------------------------------------------
(* Further properties of the approval hook, checked under Spec *)

\* C21: the hook process ends with exit status 2 when the decision it
\* printed is deny, and with exit status 0 otherwise (allow, no decision).
C21_ExitCodes ==
    pc = "done"
        => exitCode = (IF result # NoneRec /\ result.permissionDecision = "deny"
                       THEN 2 ELSE 0)

Terminal == {"Allowed", "Denied", "TimedOut"}

ReactionReasons == {"Approved via Slack", "Denied via Slack"}

\* C23: in every poll cycle the reactions are checked first: when the fetched
\* reactions hold a recognized one, it alone gives the verdict, whatever
\* replies the thread holds, and the replies are not fetched; the replies are
\* fetched, and a reply resolves the session, only in a cycle whose reaction
\* check gave no decision.
C23_ReactionsBeforeReplies ==
    [][ PollStep =>
          /\ (lastFetch'.reactions /\ FirstRecognized(reactions) # None)
                => /\ pc' = "done"
                   /\ result'.permissionDecision = FirstRecognized(reactions)
                   /\ result'.reason \in ReactionReasons
                   /\ result'.feedback = <<>>
                   /\ ~lastFetch'.replies
          /\ lastFetch'.replies
                => (~lastFetch'.reactions \/ FirstRecognized(reactions) = None)
          /\ (pc' = "done" /\ result'.reason \notin ReactionReasons)
                => (~lastFetch'.reactions \/ FirstRecognized(reactions) = None) ]_vars

\* A thumbs-down resolved the session Denied although the thread held a
\* human reply that approves.
C23_Witness ==
    /\ session = "Denied"
    /\ result.reason = "Denied via Slack"
    /\ FirstRecognized(reactions) = "deny"
    /\ \E i \in 1..Len(thread) :
          /\ IsHumanReply(thread[i])
          /\ IsApproval(Strip(Lower(Strip(thread[i].text))))
    /\ ~lastFetch.replies

-----------------------------------------------------------------------------
(* Further properties of the classifier, checked under SpecClassify *)

\* The verdict of one segment by the order deny pattern, risky prefix, risky
\* pattern, safe prefix, default.
OrderedVerdict(seg) ==
    CASE DenyMatch(seg) -> "deny"
      [] ~DenyMatch(seg) /\ (RiskyPrefixMatch(seg) \/ RiskyPatternMatch(seg)) -> "risky"
      [] ~DenyMatch(seg) /\ ~RiskyPrefixMatch(seg) /\ ~RiskyPatternMatch(seg)
            /\ SafePrefixMatch(seg) -> "safe"
      [] OTHER -> "risky"

\* C24: a command of one segment is classified by that order: deny when a
\* deny pattern matches, whatever else matches; else risky when a risky
\* prefix or pattern matches, also when a safe prefix matches too; else safe
\* when a safe prefix matches; else risky.
C24_SegmentOrder ==
    (Classified /\ Len(Segments) = 1)
        => /\ classification = OrderedVerdict(Segments[1])
           /\ DenyMatch(Segments[1]) => classification = "deny"
           /\ (~DenyMatch(Segments[1]) /\ SafePrefixMatch(Segments[1])
                 /\ (RiskyPrefixMatch(Segments[1]) \/ RiskyPatternMatch(Segments[1])))
                 => classification = "risky"

\* A segment that continues a safe prefix and holds a risky pattern was
\* classified risky.
C24_Witness ==
    /\ Classified
    /\ Len(Segments) = 1
    /\ SafePrefixMatch(Segments[1])
    /\ RiskyPatternMatch(Segments[1])
    /\ ~RiskyPrefixMatch(Segments[1])
    /\ ~DenyMatch(Segments[1])
    /\ classification = "risky"

-----------------------------------------------------------------------------
(* The reply channel of the approval hook, checked under Spec *)

\* The step is a poll cycle that a thread reply resolved.
ResolvedByReply ==
    /\ PollStep
    /\ pc' = "done"
    /\ result'.reason \notin ReactionReasons

\* C25: a poll cycle is resolved by a reply only when the thread holds a
\* non-empty reply that is neither authored by the bot nor of subtype
\* bot_message, and then the first such reply in thread order is the one
\* that decides, whether or not the bot's user id is known.
C25_OnlyHumanRepliesDecide ==
    [][ ResolvedByReply
          => /\ HumanReplies # {}
             /\ result'.feedback = Strip(FirstHumanReply.text)
             /\ result'.permissionDecision =
                   (IF IsApproval(Strip(Lower(Strip(FirstHumanReply.text))))
                    THEN "allow" ELSE "deny") ]_vars

-----------------------------------------------------------------------------
(* Further properties of the session table, checked under SpecSessions *)

Stale(table, t) == DOMAIN table \ Fresh(table, t)

\* C26 as stated: after every set_session and every touch_session the table
\* holds no entry older than SESSION_MAX_AGE.
C26_EveryWriteEvicts ==
    [][ \A w \in Workers :
          (SessionLeaves(w) /\ workers[w].call.op # "get_session")
             => Stale(sessions', now) = {} ]_vars

\* C26 amended: set_session leaves exactly its own entry and the entries
\* that were not older than SESSION_MAX_AGE; touch_session renews last_active
\* of its thread when it has an entry and leaves every other entry, old ones
\* included, as it was.
C26_OnlyUpsertEvicts ==
    [][ \A w \in Workers :
          SessionLeaves(w) =>
             LET call == workers[w].call IN
             /\ call.op = "set_session"
                   => /\ Stale(sessions', now) = {}
                      /\ DOMAIN sessions' = Fresh(sessions, now) \cup {call.thread_ts}
             /\ call.op = "touch_session"
                   => /\ DOMAIN sessions' = DOMAIN sessions
                      /\ \A k \in DOMAIN sessions :
                            sessions'[k] = IF k = call.thread_ts
                                           THEN [sessions[k] EXCEPT !.last_active = now]
                                           ELSE sessions[k] ]_vars

\* touch_session has renewed T1 and the entry of T2, a day old, is still in
\* the table.
C26_Witness ==
    /\ lastCall # NoneRec
    /\ lastCall.call = [op |-> "touch_session", thread_ts |-> "T1"]
    /\ DOMAIN sessions = {"T1", "T2"}
    /\ sessions["T1"].last_active = now
    /\ lastCall.before["T1"].last_active < now
    /\ "T2" \in Stale(sessions, now)

-----------------------------------------------------------------------------
(* Further properties of the pending file, checked under SpecPending *)

\* C27: a run of the resolver while the request of a hook process is still
\* AwaitingDecision leaves the pending file as it is and does not rewrite
\* that request's message; it rewrites and clears only for a request whose
\* session has ended TimedOut.
C27_ResolverOnlyAfterTimeout ==
    [][ ResolverRan =>
          /\ \A h \in DOMAIN hooks :
                hooks[h].session = "AwaitingDecision"
                   => /\ MarkerOf(h) => MarkerOf(h)'
                      /\ resolved'[Len(resolved')].msg_ts # hooks[h].msg_ts
          /\ resolved'[Len(resolved')].update # None
                => \E h \in DOMAIN hooks :
                      /\ hooks[h].msg_ts = resolved'[Len(resolved')].msg_ts
                      /\ hooks[h].session = "TimedOut" ]_vars

-----------------------------------------------------------------------------
(* Release of the thread when a handler ends, checked under SpecRelease *)

\* The dispatcher with handlers that may die of an exception; the clock
\* stands still, no step of the dispatch reads it.
NextRelease ==
    \/ \E ts \in MessageIds : \E text \in Texts(ts) : UserPosts(ts, text)
    \/ _poll_cycle
    \/ \E m \in MessageIds : handle_message(m)
    \/ \E m \in MessageIds, outcome \in Outcomes : AgentReturns(m, outcome)
    \/ \E m \in MessageIds : FinishProcess(m)
    \/ \E m \in MessageIds : ProcessRaises(m)

SpecRelease == InitDaemon /\ [][NextRelease]_vars

\* The step in which the handler of message m leaves _process_message.
Leaves(m) ==
    /\ m \in DOMAIN handlers
    /\ handlers[m].at \in {"running", "responding"}
    /\ handlers'[m].at \in {"done", "raised"}

\* C28: the step in which a handler leaves _process_message, by return or
\* by exception, removes its thread from _active_threads; a handler inside
\* can always take its next step; and a message whose handler runs the
\* membership test when no handler of its thread is inside enters
\* _process_message instead of being dropped.
C28_ThreadReleased ==
    /\ [][ \A m \in MessageIds :
             /\ Leaves(m) => handlers[m].thread_ts \notin _active_threads'
             /\ (Dispatched(m) /\ Inside(handlers[m].thread_ts) = {})
                   => /\ handlers'[m].at = "running"
                      /\ handlers[m].thread_ts \in _active_threads' ]_vars
    /\ [](\A m \in DOMAIN handlers :
             /\ handlers[m].at = "running"
                   => ENABLED (\E outcome \in Outcomes : AgentReturns(m, outcome))
             /\ handlers[m].at = "responding" => ENABLED FinishProcess(m)
             /\ handlers[m].at \in {"done", "raised", "dropped"}
                   => (handlers[m].thread_ts \in _active_threads
                         => Inside(handlers[m].thread_ts) # {}))

\* The handler of a reply in T1 ended by an exception and the agent runs for
\* a later reply in the same thread.
C28_Witness ==
    /\ {"R1", "R2"} \subseteq DOMAIN handlers
    /\ handlers["R1"].at = "raised"
    /\ handlers["R2"].at = "running"
    /\ _active_threads = {"T1"}

-----------------------------------------------------------------------------
(* The lookup of a session, checked under SpecSessions *)

\* C29: get_session leaves the table as it is and returns the entry of its
\* thread whenever the table holds one, whatever its last_active, and None
\* only when it holds none; an entry leaves the table only in a step in which
\* a set_session completes.
C29_GetReadsOnly ==
    [][ /\ \A w \in Workers :
             (SessionLeaves(w) /\ workers[w].call.op = "get_session") =>
                LET thread_ts == workers[w].call.thread_ts IN
                /\ sessions' = sessions
                /\ thread_ts \in DOMAIN sessions
                      => lastCall'.returned = sessions[thread_ts]
                /\ thread_ts \notin DOMAIN sessions
                      => lastCall'.returned = NoneRec
        /\ \A k \in DOMAIN sessions \ DOMAIN sessions' :
              \E w \in Workers :
                 SessionLeaves(w) /\ workers[w].call.op = "set_session" ]_vars

\* T2 was renewed at the present clock value and, after that, get_session
\* returned the entry of T1, a day old and still in the table.
C29_Witness ==
    /\ lastCall # NoneRec
    /\ lastCall.call = [op |-> "get_session", thread_ts |-> "T1"]
    /\ DOMAIN sessions = {"T1", "T2"}
    /\ sessions["T2"].last_active = now
    /\ "T1" \in Stale(sessions, now)
    /\ lastCall.returned = sessions["T1"]

====
